---- MODULE Spec2Model ----
(***************************************************************************)
(* axum-protobuf: the Protobuf extractor / responder (src/src/lib.rs) and  *)
(* the negotiating ProtoJson extractor / response inference                *)
(* (src/src/protojson.rs), over the message type of tests/app.rs           *)
(* (TestMessage, one string field with tag 1).                             *)
(*                                                                         *)
(* One behaviour is one call of one library entry point: the call is       *)
(* chosen in Init together with its inputs (header map, body bytes, the    *)
(* message to send), and the actions are the steps of the called function. *)
(***************************************************************************)
EXTENDS Integers, Sequences, FiniteSets, TLC

\* ------------------------------------------------------------------ bounds
\* longest request body, in bytes, drawn from Alphabet
MaxBody == 3
\* longest `test` string of a message, in bytes
MaxStrLen == 2
\* how many empty chunks the body stream may yield in one request
MaxEmptyChunks == 1

\* ------------------------------------------------------- program constants
PROTOBUF_CONTENT_TYPES ==
    << "application/protobuf",
       "application/x-protobuf",
       "application/vnd.google.protobuf" >>

\* variant: the responder announces the second token of the list
PROTOBUF_CONTENT_TYPE_ALIAS == PROTOBUF_CONTENT_TYPES[2]

PROTOBUF_CONTENT_TYPE == PROTOBUF_CONTENT_TYPES[1]

JSON_CONTENT_TYPE == "application/json"

\* StatusCode::OK, BAD_REQUEST, UNSUPPORTED_MEDIA_TYPE, INTERNAL_SERVER_ERROR
OK == 200
BAD_REQUEST == 400
UNSUPPORTED_MEDIA_TYPE == 415
INTERNAL_SERVER_ERROR == 500

\* ----------------------------------------------------------------- options
\* Option<T>: None is the empty sequence, Some(x) the one-element sequence.
None == << >>
Some(x) == << x >>
IsSome(o) == o # << >>

\* Slice.contains
Contains(list, x) == \E i \in 1..Len(list) : list[i] = x

\* ------------------------------------------------------------ header values
\* A header value whose bytes are not all visible ASCII: HeaderValue::to_str
\* fails on it.  The text stands for "application/protobuf" followed by 0xFF.
OpaqueValue == "application/protobuf<0xFF>"

HeaderValues ==
    { "application/protobuf", "application/x-protobuf",
      "application/vnd.google.protobuf", "application/json",
      "application/json; charset=utf-8", "Application/Protobuf",
      "application/protobuf; q=1", "text/plain", OpaqueValue }

\* HeaderMap::get(name).and_then(|v| v.to_str().ok()), on the values a header
\* map holds for one name (at most one here).
ToStr(v) == IF v = OpaqueValue THEN None ELSE Some(v)
HeaderStr(values) == IF values = << >> THEN None ELSE ToStr(values[1])

\* ------------------------------------------------------------------- bytes
\* 0: tag 0 / length 0      1, 2: lengths (as keys: tag 0)
\* 10: key of field 1, length-delimited     16: key of field 2, varint
\* 97: 'a' (as key: field 12, 64-bit)       128: varint continuation byte
Alphabet == {0, 1, 2, 10, 16, 97, 128}

\* the bytes a message's string is made of ('a', 'b')
Letters == {97, 98}

RECURSIVE SeqsUpTo(_, _)
SeqsUpTo(S, n) ==
    IF n = 0 THEN { << >> }
    ELSE LET shorter == SeqsUpTo(S, n - 1)
         IN  shorter \cup { Append(s, x) : s \in { t \in shorter : Len(t) = n - 1 }, x \in S }

\* TestMessage { test: String }; Default is the empty string
Message(t) == [test |-> t]
Default == Message(<< >>)
Messages == { Message(t) : t \in SeqsUpTo(Letters, MaxStrLen) }

\* ------------------------------------------------------- protobuf wire codec
\* Values are kept below 2^31; a varint that does not fit saturates at Sat
\* (every use below only compares it with a buffer length or discards it).
Sat == 2 ^ 30 + (2 ^ 30 - 1)

Pow2(n) == 2 ^ n

\* encode_varint, for the lengths that occur (below 2^14)
EncodeVarint(n) ==
    IF n < 128 THEN << n >> ELSE << 128 + (n % 128), n \div 128 >>

\* encoded_len of TestMessage: a string field is skipped when empty
EncodedLen(m) ==
    IF m.test = << >> THEN 0
    ELSE 1 + Len(EncodeVarint(Len(m.test))) + Len(m.test)

\* encode_raw of TestMessage: key (1 << 3 | 2), length, bytes
EncodeRaw(m) ==
    IF m.test = << >> THEN << >>
    ELSE << 10 >> \o EncodeVarint(Len(m.test)) \o m.test

\* BufMut::remaining_mut of a Vec<u8> (isize::MAX - len); the narrowest
\* pointer width of the supported targets is taken.
RemainingMut(buf) == Sat - Len(buf)

\* Message::encode: fails only when the buffer has not enough capacity
EncodeInto(m, buf) ==
    IF EncodedLen(m) > RemainingMut(buf)
    THEN [ok |-> FALSE, buf |-> buf, detail |-> "failed to encode Protobuf message; insufficient buffer capacity"]
    ELSE [ok |-> TRUE, buf |-> buf \o EncodeRaw(m), detail |-> ""]

\* decode_varint from position i (1-based) of b.  k bytes are consumed so
\* far, acc is the value so far, over32 whether it exceeds u32::MAX.
RECURSIVE VarintFrom(_, _, _, _, _)
VarintFrom(b, i, k, acc, over32) ==
    IF i > Len(b) \/ k = 10
    THEN [ok |-> FALSE, value |-> 0, over32 |-> FALSE, next |-> i]
    ELSE LET byte == b[i]
             low  == byte % 128
             acc2 == IF low = 0 THEN acc
                     ELSE IF acc = Sat \/ k >= 5 \/ (k = 4 /\ low >= 8) THEN Sat
                     ELSE acc + low * Pow2(7 * k)
             ov2  == over32 \/ (low > 0 /\ (k >= 5 \/ (k = 4 /\ low >= 16)))
         IN  IF byte < 128
             THEN IF k = 9 /\ byte >= 2
                  THEN [ok |-> FALSE, value |-> 0, over32 |-> FALSE, next |-> i]
                  ELSE [ok |-> TRUE, value |-> acc2, over32 |-> ov2, next |-> i + 1]
             ELSE VarintFrom(b, i + 1, k + 1, acc2, ov2)

DecodeVarint(b, i) == VarintFrom(b, i, 0, 0, FALSE)

DecodeFail(detail) == [ok |-> FALSE, msg |-> Default, detail |-> detail, next |-> 0]

\* decode_key: the wire type is the low three bits (of the first byte), the
\* tag the rest; tag 0 and wire types 6, 7 are errors.
DecodeKey(b, i) ==
    LET v == DecodeVarint(b, i)
        wt == b[i] % 8
        tag == IF v.value = Sat THEN Sat ELSE v.value \div 8
    IN  IF ~v.ok THEN [ok |-> FALSE, detail |-> "invalid varint", tag |-> 0, wt |-> 0, next |-> i]
        ELSE IF v.over32 THEN [ok |-> FALSE, detail |-> "invalid key value", tag |-> 0, wt |-> 0, next |-> i]
        ELSE IF wt > 5 THEN [ok |-> FALSE, detail |-> "invalid wire type value", tag |-> 0, wt |-> 0, next |-> i]
        ELSE IF tag < 1 THEN [ok |-> FALSE, detail |-> "invalid tag value: 0", tag |-> 0, wt |-> 0, next |-> i]
        ELSE [ok |-> TRUE, detail |-> "", tag |-> tag, wt |-> wt, next |-> v.next]

\* str::from_utf8 on b[i..j]: one- to four-byte sequences of well-formed UTF-8
RECURSIVE Utf8Valid(_, _, _)
Utf8Valid(b, i, j) ==
    IF i > j THEN TRUE
    ELSE LET c == b[i]
             Cont(p) == p <= j /\ b[p] >= 128 /\ b[p] <= 191
         IN  IF c < 128 THEN Utf8Valid(b, i + 1, j)
             ELSE IF c >= 194 /\ c <= 223
                  THEN Cont(i + 1) /\ Utf8Valid(b, i + 2, j)
             ELSE IF c >= 224 /\ c <= 239
                  THEN /\ Cont(i + 1) /\ Cont(i + 2)
                       /\ (c = 224 => b[i + 1] >= 160)
                       /\ (c = 237 => b[i + 1] <= 159)
                       /\ Utf8Valid(b, i + 3, j)
             ELSE IF c >= 240 /\ c <= 244
                  THEN /\ Cont(i + 1) /\ Cont(i + 2) /\ Cont(i + 3)
                       /\ (c = 240 => b[i + 1] >= 144)
                       /\ (c = 244 => b[i + 1] <= 143)
                       /\ Utf8Valid(b, i + 4, j)
             ELSE FALSE

\* skip_field for the wire types Varint(0), SixtyFourBit(1),
\* LengthDelimited(2), StartGroup(3), EndGroup(4), ThirtyTwoBit(5).
\* A group is skipped up to its matching end-group key.
RECURSIVE SkipField(_, _, _, _)
RECURSIVE SkipGroup(_, _, _)
SkipField(b, i, wt, tag) ==
    LET remaining == Len(b) - i + 1
        Advance(len, from) ==
            IF len > Len(b) - from + 1
            THEN [ok |-> FALSE, detail |-> "buffer underflow", next |-> from]
            ELSE [ok |-> TRUE, detail |-> "", next |-> from + len]
        v == DecodeVarint(b, i)
    IN  CASE wt = 0 -> IF v.ok THEN [ok |-> TRUE, detail |-> "", next |-> v.next]
                       ELSE [ok |-> FALSE, detail |-> "invalid varint", next |-> i]
          [] wt = 1 -> Advance(8, i)
          [] wt = 5 -> Advance(4, i)
          [] wt = 2 -> IF v.ok THEN Advance(v.value, v.next)
                       ELSE [ok |-> FALSE, detail |-> "invalid varint", next |-> i]
          [] wt = 3 -> SkipGroup(b, i, tag)
          [] OTHER  -> [ok |-> FALSE, detail |-> "unexpected end group tag", next |-> i]

SkipGroup(b, i, tag) ==
    LET key == DecodeKey(b, i)
    IN  IF i > Len(b) THEN [ok |-> FALSE, detail |-> "invalid varint", next |-> i]
        ELSE IF ~key.ok THEN [ok |-> FALSE, detail |-> key.detail, next |-> i]
        ELSE IF key.wt = 4
             THEN IF key.tag = tag THEN [ok |-> TRUE, detail |-> "", next |-> key.next]
                  ELSE [ok |-> FALSE, detail |-> "unexpected end group tag", next |-> i]
        ELSE LET inner == SkipField(b, key.next, key.wt, key.tag)
             IN  IF inner.ok THEN SkipGroup(b, inner.next, tag) ELSE inner

\* string::merge for field 1: length-delimited, the bytes replace the value,
\* and they must be UTF-8.
StringMerge(b, i, wt) ==
    LET v == DecodeVarint(b, i)
    IN  IF wt # 2 THEN [ok |-> FALSE, detail |-> "invalid wire type", value |-> << >>, next |-> i]
        ELSE IF ~v.ok THEN [ok |-> FALSE, detail |-> "invalid varint", value |-> << >>, next |-> i]
        ELSE IF v.value > Len(b) - v.next + 1
             THEN [ok |-> FALSE, detail |-> "buffer underflow", value |-> << >>, next |-> i]
        ELSE IF ~Utf8Valid(b, v.next, v.next + v.value - 1)
             THEN [ok |-> FALSE, detail |-> "invalid string value: data is not UTF-8 encoded", value |-> << >>, next |-> i]
        ELSE [ok |-> TRUE, detail |-> "", value |-> SubSeq(b, v.next, v.next + v.value - 1), next |-> v.next + v.value]

\* Message::merge of TestMessage: while bytes remain, decode a key and merge
\* field 1 or skip any other field.
RECURSIVE Merge(_, _, _)
Merge(b, i, m) ==
    IF i > Len(b) THEN [ok |-> TRUE, msg |-> m, detail |-> "", next |-> i]
    ELSE LET key == DecodeKey(b, i)
         IN  IF ~key.ok THEN DecodeFail(key.detail)
             ELSE IF key.tag = 1
                  THEN LET s == StringMerge(b, key.next, key.wt)
                       IN  IF s.ok THEN Merge(b, s.next, Message(s.value))
                           ELSE DecodeFail(s.detail)
             ELSE LET k == SkipField(b, key.next, key.wt, key.tag)
                  IN  IF k.ok THEN Merge(b, k.next, m) ELSE DecodeFail(k.detail)

\* variant: an empty buffer is refused by the decoder
DecodeNonEmpty(b) ==
    IF b = << >> THEN DecodeFail("buffer underflow") ELSE Merge(b, 1, Default)

\* T::decode(buf): merge into the default message
Decode(b) == Merge(b, 1, Default)

\* --------------------------------------------------------------- responses
\* A response body: text written by this crate, protobuf bytes, or the JSON
\* object of a message (given by the bytes of its `test` string).
Text(s) == [kind |-> "text", text |-> s, bytes |-> << >>]
Bytes(b) == [kind |-> "bytes", text |-> "", bytes |-> b]
JsonBody(m) == [kind |-> "json", text |-> "", bytes |-> m.test]

\* Response::builder().status(s).body(b): no header is set
Plain(status, b) == [status |-> status, contentType |-> None, body |-> b]

\* ProtobufRejection and its IntoResponse
ProtobufDecodeError(detail) == [kind |-> "ProtobufDecodeError", detail |-> detail]
FailedToBufferBody == [kind |-> "FailedToBufferBody", detail |-> ""]
MissingProtobufContentType == [kind |-> "MissingProtobufContentType", detail |-> ""]

\* variant: the statuses of the decode error and the missing header swapped
ProtobufRejectionIntoResponseSwapped(r) ==
    CASE r.kind = "ProtobufDecodeError" -> Plain(UNSUPPORTED_MEDIA_TYPE, Text("Protobuf decoding error"))
      [] r.kind = "FailedToBufferBody" -> Plain(INTERNAL_SERVER_ERROR, Text("Error reading request body"))
      [] r.kind = "MissingProtobufContentType" ->
            Plain(BAD_REQUEST, Text("Missing 'content-type: application/protobuf' header"))

ProtobufRejectionIntoResponse(r) ==
    CASE r.kind = "ProtobufDecodeError" -> Plain(BAD_REQUEST, Text("Protobuf decoding error"))
      [] r.kind = "FailedToBufferBody" -> Plain(INTERNAL_SERVER_ERROR, Text("Error reading request body"))
      [] r.kind = "MissingProtobufContentType" ->
            Plain(UNSUPPORTED_MEDIA_TYPE, Text("Missing 'content-type: application/protobuf' header"))

\* axum's JsonRejection (external): each variant has its own status and text
JsonSyntaxError == [kind |-> "JsonSyntaxError", detail |-> "Failed to parse the request body as JSON"]
JsonDataError == [kind |-> "JsonDataError", detail |-> "Failed to deserialize the JSON body into the target type"]
JsonBytesRejection == [kind |-> "BytesRejection", detail |-> "Failed to buffer the request body"]

JsonRejectionIntoResponse(r) ==
    CASE r.kind = "JsonSyntaxError" -> Plain(BAD_REQUEST, Text(r.detail))
      [] r.kind = "JsonDataError" -> Plain(422, Text(r.detail))
      [] r.kind = "BytesRejection" -> Plain(INTERNAL_SERVER_ERROR, Text(r.detail))

\* ProtoJsonRejection and its IntoResponse
ProtobufRejection(r) == [kind |-> "ProtobufRejection", inner |-> r]
JsonRejection(r) == [kind |-> "JsonRejection", inner |-> r]
MissingContentType == [kind |-> "MissingContentType", inner |-> [kind |-> "", detail |-> ""]]

\* variant: every nested rejection is rendered as 400 with its own text
ProtoJsonRejectionIntoResponseRenormalized(r) ==
    CASE r.kind = "JsonRejection" ->
            [JsonRejectionIntoResponse(r.inner) EXCEPT !.status = BAD_REQUEST]
      [] r.kind = "ProtobufRejection" ->
            [ProtobufRejectionIntoResponse(r.inner) EXCEPT !.status = BAD_REQUEST]
      [] r.kind = "MissingContentType" ->
            Plain(UNSUPPORTED_MEDIA_TYPE,
                  Text("Missing 'content-type' header that has the value 'application/json' or 'application/protobuf'"))

ProtoJsonRejectionIntoResponse(r) ==
    CASE r.kind = "JsonRejection" -> JsonRejectionIntoResponse(r.inner)
      [] r.kind = "ProtobufRejection" -> ProtobufRejectionIntoResponse(r.inner)
      [] r.kind = "MissingContentType" ->
            Plain(UNSUPPORTED_MEDIA_TYPE,
                  Text("Missing 'content-type' header that has the value 'application/json' or 'application/protobuf'"))

\* <Protobuf<T> as IntoResponse>::into_response
ProtobufIntoResponse(m) ==
    LET e == EncodeInto(m, << >>)
    IN  IF ~e.ok
        THEN Plain(INTERNAL_SERVER_ERROR, Text("protobuf encoding error: failed to encode Protobuf message; insufficient buffer capacity"))
        ELSE [status |-> OK, contentType |-> Some(PROTOBUF_CONTENT_TYPE), body |-> Bytes(e.buf)]

\* Json(m).into_response() (external): 200, application/json, the JSON object
JsonIntoResponse(m) ==
    [status |-> OK, contentType |-> Some("application/json"), body |-> JsonBody(m)]

\* variant: the protobuf branch answers with the token the client asked for
TryInferResponseEcho(m, acceptValues) ==
    LET a == HeaderStr(acceptValues)
    IN  IF a = Some(JSON_CONTENT_TYPE) THEN Some(JsonIntoResponse(m))
        ELSE IF IsSome(a) /\ Contains(PROTOBUF_CONTENT_TYPES, a[1])
             THEN Some([ProtobufIntoResponse(m) EXCEPT !.contentType = a])
        ELSE None

\* ProtoJson::try_infer_response: Option<Response> from the accept header
TryInferResponse(m, acceptValues) ==
    LET a == HeaderStr(acceptValues)
    IN  IF a = Some(JSON_CONTENT_TYPE) THEN Some(JsonIntoResponse(m))
        ELSE IF IsSome(a) /\ Contains(PROTOBUF_CONTENT_TYPES, a[1])
             THEN Some(ProtobufIntoResponse(m))
        ELSE None

\* variant: a failed negotiation answered with 406 Not Acceptable
InferResponseNotAcceptable(m, acceptValues) ==
    LET r == TryInferResponse(m, acceptValues)
    IN  IF IsSome(r) THEN r[1]
        ELSE Plain(406, Text("Missing 'accept' header with value 'application/json' or 'application/protobuf'"))

\* ProtoJson::infer_response: unwrap_or_else a 400 response
InferResponse(m, acceptValues) ==
    LET r == TryInferResponse(m, acceptValues)
    IN  IF IsSome(r) THEN r[1]
        ELSE Plain(BAD_REQUEST, Text("Missing 'accept' header with value 'application/json' or 'application/protobuf'"))

\* ------------------------------------------------------------------- state
VARIABLES
    op,          \* the entry point called
    contentType, \* values of the request's content-type header (none or one)
    accept,      \* values of the accept header handed to the inference
    body,        \* the request body as sent, all bytes
    msg,         \* the message handed to a responder
    rest,        \* bytes the body stream has not yielded yet
    empties,     \* empty chunks the stream has yielded
    pc,          \* position in the called function
    buf,         \* the buffer the body is collected in
    chunksRead,  \* items taken from the body stream (chunks and errors)
    taken,       \* how many times the request's body was taken (into_body)
    calls,       \* the from_request implementations entered, in order
    result,      \* what from_request returned
    streamErr,   \* the body stream has yielded an error
    decodes,     \* invocations of T::decode
    response     \* Option<Response> built by a responder or a rejection

vars == << op, contentType, accept, body, msg, rest, empties, pc, buf,
           chunksRead, taken, calls, result, streamErr, decodes, response >>

Extractors == {"Protobuf::from_request", "ProtoJson::from_request"}
Responders == {"Protobuf::into_response", "ProtoJson::try_infer_response",
               "ProtoJson::infer_response"}

HeaderMaps == { << >> } \cup { << v >> : v \in HeaderValues }

\* request bodies: every byte string over Alphabet up to MaxBody, and the
\* encoding of every message
Bodies == SeqsUpTo(Alphabet, MaxBody) \cup { EncodeRaw(m) : m \in Messages }

Pending == [tag |-> "Pending", value |-> Default, rejection |-> [kind |-> ""]]
Ok(m) == [tag |-> "Ok", value |-> m, rejection |-> [kind |-> ""]]
Err(r) == [tag |-> "Err", value |-> Default, rejection |-> r]

Init ==
    /\ op \in Extractors \cup Responders
    /\ IF op \in Extractors
       THEN /\ contentType \in HeaderMaps
            /\ body \in Bodies
            /\ accept = << >>
            /\ msg = Default
            /\ pc = IF op = "Protobuf::from_request" THEN "pb_header" ELSE "pj_dispatch"
            /\ calls = IF op = "Protobuf::from_request" THEN << "Protobuf" >> ELSE << "ProtoJson" >>
       ELSE /\ contentType = << >>
            /\ body = << >>
            /\ accept \in HeaderMaps
            /\ msg \in Messages
            /\ pc = "respond"
            /\ calls = << >>
    /\ rest = body
    /\ empties = 0
    /\ buf = << >>
    /\ chunksRead = 0
    /\ taken = 0
    /\ result = Pending
    /\ streamErr = FALSE
    /\ decodes = 0
    /\ response = None

\* ------------------------------------------------- Protobuf::from_request
\* variant: the header check compares with the canonical token only
ProtobufContentTypeOkCanonicalOnly(values) ==
    HeaderStr(values) = Some(PROTOBUF_CONTENT_TYPE)

\* variant: media-type parameters are ignored by the header check
ProtobufContentTypeOkIgnoringParameters(values) ==
    LET ct == HeaderStr(values)
    IN  IsSome(ct) /\ (Contains(PROTOBUF_CONTENT_TYPES, ct[1]) \/ ct[1] = "application/protobuf; q=1")

\* the header check: get, to_str, filter(contains), ok_or(Missing...)
ProtobufContentTypeOk(values) ==
    LET ct == HeaderStr(values)
    IN  IsSome(ct) /\ Contains(PROTOBUF_CONTENT_TYPES, ct[1])

\* variant: a chunk is put in front of the buffer
ExtendFromSlicePrepend(b, chunk) == chunk \o b

\* buf.extend_from_slice(&chunk)
ExtendFromSlice(b, chunk) == b \o chunk

\* variant: a decode failure falls back to the default message
DecodeResultOrDefault(b) ==
    LET d == Decode(b)
    IN  IF d.ok THEN Ok(d.msg) ELSE Ok(Default)

\* T::decode(buf).map(Self).map_err(ProtobufDecodeError)
DecodeResult(b) ==
    LET d == Decode(b)
    IN  IF d.ok THEN Ok(d.msg) ELSE Err(ProtobufDecodeError(d.detail))

\* variant: under ProtoJson a failed protobuf extraction falls back to JSON
ProtobufReturnFallback(o, r) ==
    IF o = "ProtoJson::from_request" /\ r.tag = "Err"
    THEN [pc |-> "json_buffer", result |-> Pending, call |-> << "Json" >>]
    ELSE [pc |-> "returned", result |-> r, call |-> << >>]

\* Where a result of Protobuf::from_request goes: to the caller as it is, or,
\* under ProtoJson::from_request, through map(into) / map_err(ProtobufRejection).
ProtobufReturn(o, r) ==
    IF o = "ProtoJson::from_request" /\ r.tag = "Err"
    THEN [pc |-> "returned", result |-> Err(ProtobufRejection(r.rejection)), call |-> << >>]
    ELSE [pc |-> "returned", result |-> r, call |-> << >>]

Finish(ret) ==
    /\ pc' = ret.pc
    /\ result' = ret.result
    /\ calls' = calls \o ret.call

\* lines 123-130: the content-type check, then into_body and an empty buffer
ProtobufHeaderCheck ==
    /\ pc = "pb_header"
    /\ IF ProtobufContentTypeOk(contentType)
       THEN /\ pc' = "pb_next"
            /\ taken' = taken + 1
            /\ buf' = << >>
            /\ UNCHANGED << result, calls >>
       ELSE /\ Finish(ProtobufReturn(op, Err(MissingProtobufContentType)))
            /\ UNCHANGED << taken, buf >>
    /\ UNCHANGED << op, contentType, accept, body, msg, streamErr, decodes, rest, empties, chunksRead, response >>

\* body.next() yields Some(Ok(chunk)): the chunk is appended
ProtobufChunkOk ==
    /\ pc = "pb_next"
    /\ \E k \in 0..Len(rest) :
        /\ k > 0 \/ empties < MaxEmptyChunks
        /\ buf' = ExtendFromSlice(buf, SubSeq(rest, 1, k))
        /\ rest' = SubSeq(rest, k + 1, Len(rest))
        /\ empties' = IF k = 0 THEN empties + 1 ELSE empties
    /\ chunksRead' = chunksRead + 1
    /\ UNCHANGED << op, contentType, accept, body, msg, streamErr, decodes, pc, taken, calls, result, response >>

\* variant: an erroneous item of the stream is dropped and the loop goes on
ProtobufChunkErrSkipped ==
    /\ pc = "pb_next"
    /\ ~streamErr
    /\ chunksRead' = chunksRead + 1
    /\ streamErr' = TRUE
    /\ UNCHANGED << op, contentType, accept, body, msg, decodes, rest, empties, buf,
                    taken, pc, result, calls, response >>

\* body.next() yields Some(Err(_)): FailedToBufferBody is returned by `?`
ProtobufChunkErr ==
    /\ pc = "pb_next"
    /\ chunksRead' = chunksRead + 1
    /\ streamErr' = TRUE
    /\ Finish(ProtobufReturn(op, Err(FailedToBufferBody)))
    /\ UNCHANGED << op, contentType, accept, body, msg, decodes, rest, empties, buf, taken, response >>

\* body.next() yields None: the loop ends
ProtobufStreamEnd ==
    /\ pc = "pb_next"
    /\ rest = << >>
    /\ pc' = "pb_decode"
    /\ UNCHANGED << op, contentType, accept, body, msg, streamErr, decodes, rest, empties, buf,
                    chunksRead, taken, calls, result, response >>

\* T::decode(buf.as_slice())
ProtobufDecode ==
    /\ pc = "pb_decode"
    /\ decodes' = decodes + 1
    /\ Finish(ProtobufReturn(op, DecodeResult(buf)))
    /\ UNCHANGED << op, contentType, accept, body, msg, streamErr, rest, empties, buf,
                    chunksRead, taken, response >>

\* ------------------------------------------------ ProtoJson::from_request
\* variant: a JSON content type with a charset parameter is taken as JSON
DispatchWithCharset(values) ==
    LET ct == HeaderStr(values)
    IN  IF ct = Some(JSON_CONTENT_TYPE) \/ ct = Some("application/json; charset=utf-8") THEN "Json"
        ELSE IF IsSome(ct) /\ Contains(PROTOBUF_CONTENT_TYPES, ct[1]) THEN "Protobuf"
        ELSE "None"

\* match request_type { Some(JSON) .., Some(ct) if protobuf .., _ .. }
Dispatch(values) ==
    LET ct == HeaderStr(values)
    IN  IF ct = Some(JSON_CONTENT_TYPE) THEN "Json"
        ELSE IF IsSome(ct) /\ Contains(PROTOBUF_CONTENT_TYPES, ct[1]) THEN "Protobuf"
        ELSE "None"

ProtoJsonDispatch ==
    /\ pc = "pj_dispatch"
    /\ LET d == Dispatch(contentType)
       IN  CASE d = "Json" ->
                  /\ pc' = "json_buffer"
                  /\ calls' = Append(calls, "Json")
                  /\ UNCHANGED result
             [] d = "Protobuf" ->
                  /\ pc' = "pb_header"
                  /\ calls' = Append(calls, "Protobuf")
                  /\ UNCHANGED result
             [] OTHER ->
                  /\ pc' = "returned"
                  /\ result' = Err(MissingContentType)
                  /\ UNCHANGED calls
    /\ UNCHANGED << op, contentType, accept, body, msg, streamErr, decodes, rest, empties, buf,
                    chunksRead, taken, response >>

\* Json::<T>::from_request (axum): the body is taken and collected whole, or
\* collecting fails
JsonBufferBody ==
    /\ pc = "json_buffer"
    /\ taken' = taken + 1
    /\ chunksRead' = chunksRead + 1
    /\ \/ /\ buf' = rest
          /\ rest' = << >>
          /\ pc' = "json_decode"
          /\ UNCHANGED << result, streamErr >>
       \/ /\ pc' = "returned"
          /\ result' = Err(JsonRejection(JsonBytesRejection))
          /\ streamErr' = TRUE
          /\ UNCHANGED << buf, rest >>
    /\ UNCHANGED << op, contentType, accept, body, msg, decodes, empties, calls, response >>

\* what serde_json can make of the collected bytes: an empty buffer is a
\* syntax error (EOF while parsing a value); otherwise a value of T, a syntax
\* error or a data error
JsonOutcomes(b) ==
    IF b = << >> THEN { Err(JsonRejection(JsonSyntaxError)) }
    ELSE { Ok(m) : m \in Messages }
         \cup { Err(JsonRejection(JsonSyntaxError)), Err(JsonRejection(JsonDataError)) }

JsonDeserialize ==
    /\ pc = "json_decode"
    /\ result' \in JsonOutcomes(buf)
    /\ pc' = "returned"
    /\ UNCHANGED << op, contentType, accept, body, msg, streamErr, decodes, rest, empties, buf,
                    chunksRead, taken, calls, response >>

\* the rejection a from_request returned is turned into the response
RejectionIntoResponse ==
    /\ pc = "returned"
    /\ result.tag = "Err"
    /\ response' = Some(IF op = "ProtoJson::from_request"
                        THEN ProtoJsonRejectionIntoResponse(result.rejection)
                        ELSE ProtobufRejectionIntoResponse(result.rejection))
    /\ pc' = "done"
    /\ UNCHANGED << op, contentType, accept, body, msg, streamErr, decodes, rest, empties, buf,
                    chunksRead, taken, calls, result >>

\* -------------------------------------------------------------- responders
ProtobufRespond ==
    /\ pc = "respond"
    /\ op = "Protobuf::into_response"
    /\ response' = Some(ProtobufIntoResponse(msg))
    /\ pc' = "done"
    /\ UNCHANGED << op, contentType, accept, body, msg, streamErr, decodes, rest, empties, buf,
                    chunksRead, taken, calls, result >>

TryInferRespond ==
    /\ pc = "respond"
    /\ op = "ProtoJson::try_infer_response"
    /\ response' = TryInferResponse(msg, accept)
    /\ pc' = "done"
    /\ UNCHANGED << op, contentType, accept, body, msg, streamErr, decodes, rest, empties, buf,
                    chunksRead, taken, calls, result >>

InferRespond ==
    /\ pc = "respond"
    /\ op = "ProtoJson::infer_response"
    /\ response' = Some(InferResponse(msg, accept))
    /\ pc' = "done"
    /\ UNCHANGED << op, contentType, accept, body, msg, streamErr, decodes, rest, empties, buf,
                    chunksRead, taken, calls, result >>

Next ==
    \/ ProtobufHeaderCheck
    \/ ProtobufChunkOk
    \/ ProtobufChunkErr
    \/ ProtobufStreamEnd
    \/ ProtobufDecode
    \/ ProtoJsonDispatch
    \/ JsonBufferBody
    \/ JsonDeserialize
    \/ RejectionIntoResponse
    \/ ProtobufRespond
    \/ TryInferRespond
    \/ InferRespond

Spec == Init /\ [][Next]_vars

\* ================================================================== claims
\* the three protobuf tokens and the JSON token, as the HTTP contract lists them
ProtobufTokens ==
    { "application/protobuf", "application/x-protobuf", "application/vnd.google.protobuf" }

\* the request carries exactly one of the protobuf tokens as its content type
HasProtobufToken == contentType # << >> /\ contentType[1] \in ProtobufTokens

HasJsonToken == contentType = << "application/json" >>

Returned == pc \in {"returned", "done"}

\* the rejection of the Protobuf extractor inside the returned result
InnerRejection ==
    IF op = "ProtoJson::from_request" THEN result.rejection.inner ELSE result.rejection

\* the body stream failed while the Protobuf extractor was buffering
StreamFailed == result.tag = "Err" /\ InnerRejection.kind = "FailedToBufferBody"

\* C1: in Protobuf::from_request the content-type check precedes any use of
\* the body: while the check is pending nothing has been read, and a request
\* whose content type is absent or not one of the three tokens is rejected
\* with the body untouched and no chunk read.
C1_HeaderCheckPrecedesBody ==
    /\ pc = "pb_header" => chunksRead = 0 /\ taken = 0 /\ buf = << >>
    /\ (op = "Protobuf::from_request" /\ ~HasProtobufToken) =>
          /\ chunksRead = 0 /\ taken = 0 /\ rest = body
          /\ pc \in {"pb_header", "returned", "done"}
          /\ Returned => result.tag = "Err"

C1_Witness ==
    /\ op = "Protobuf::from_request"
    /\ contentType = << "application/protobuf; q=1" >>
    /\ Len(body) = MaxBody
    /\ pc = "done"
    /\ result.tag = "Err"
    /\ chunksRead = 0

\* C2: ProtoJson::from_request is a strict dispatch: with a JSON content type
\* only the JSON extractor is entered, with a protobuf token only the
\* Protobuf extractor, otherwise neither; a failure of the entered extractor
\* enters nothing else, and the body is taken at most once.
C2_StrictDispatch ==
    /\ taken <= 1
    /\ op = "ProtoJson::from_request" =>
          /\ Len(calls) <= 2
          /\ pc # "pj_dispatch" =>
                calls = IF HasJsonToken THEN << "ProtoJson", "Json" >>
                        ELSE IF HasProtobufToken THEN << "ProtoJson", "Protobuf" >>
                        ELSE << "ProtoJson" >>
          /\ Len(calls) = 1 => taken = 0

C2_Witness ==
    /\ op = "ProtoJson::from_request"
    /\ pc = "done"
    /\ result.tag = "Err"
    /\ result.rejection.kind = "ProtobufRejection"
    /\ result.rejection.inner.kind = "ProtobufDecodeError"
    /\ calls = << "ProtoJson", "Protobuf" >>
    /\ taken = 1

\* C3: with an accepted protobuf token and a body that is the encoding of a
\* message M, however the stream cuts it into chunks, Protobuf::from_request
\* returns M unless the stream fails; at decode time the buffer is the body.
C3_RoundTrip ==
    (op = "Protobuf::from_request" /\ HasProtobufToken) =>
        /\ pc = "pb_decode" => buf = body
        /\ \A m \in Messages :
              (body = EncodeInto(m, << >>).buf /\ Returned /\ ~StreamFailed)
                  => result = Ok(m)

C3_Witness ==
    /\ op = "Protobuf::from_request"
    /\ contentType = << "application/vnd.google.protobuf" >>
    /\ pc = "returned"
    /\ chunksRead >= 3
    /\ result.tag = "Ok"
    /\ result.value = Message(<< 97, 98 >>)
    /\ body = << 10, 2, 97, 98 >>

\* C4: on the protobuf-only path a request without a content type, or with
\* one that is not exactly one of the three tokens, is rejected with
\* MissingProtobufContentType and rendered as 415 with the fixed text,
\* whatever its body.
C4_MissingProtobufContentType ==
    (op = "Protobuf::from_request" /\ ~HasProtobufToken) =>
        /\ Returned => result = Err(MissingProtobufContentType)
        /\ pc = "done" =>
              response = Some([status |-> 415, contentType |-> None,
                               body |-> Text("Missing 'content-type: application/protobuf' header")])

C4_Witness ==
    /\ op = "Protobuf::from_request"
    /\ contentType = << "Application/Protobuf" >>
    /\ body = << 10, 1, 97 >>
    /\ pc = "done"
    /\ response # None
    /\ response[1].status = 415

\* C5: on the negotiating path a request whose content type is absent or is
\* neither exactly application/json nor one of the three protobuf tokens is
\* rejected with MissingContentType, rendered as 415 with the combined text,
\* and neither extractor is entered nor the body touched.
C5_MissingContentType ==
    (op = "ProtoJson::from_request" /\ ~HasJsonToken /\ ~HasProtobufToken) =>
        /\ calls = << "ProtoJson" >>
        /\ taken = 0 /\ chunksRead = 0
        /\ pc \in {"pj_dispatch", "returned", "done"}
        /\ Returned => result = Err(MissingContentType)
        /\ pc = "done" =>
              response = Some([status |-> 415, contentType |-> None,
                               body |-> Text("Missing 'content-type' header that has the value 'application/json' or 'application/protobuf'")])

C5_Witness ==
    /\ op = "ProtoJson::from_request"
    /\ contentType = << "application/json; charset=utf-8" >>
    /\ body # << >>
    /\ pc = "done"
    /\ response # None
    /\ response[1].status = 415

\* C6: with an accepted protobuf token, a non-empty body that was buffered
\* whole and does not decode is rejected with ProtobufDecodeError, rendered
\* as 400 with the text "Protobuf decoding error" and nothing of the
\* decoder's diagnostic, under both extractors.
C6_DecodeError ==
    (/\ op \in Extractors /\ HasProtobufToken
     /\ body # << >> /\ ~Decode(body).ok
     /\ Returned /\ ~StreamFailed) =>
        /\ result.tag = "Err"
        /\ InnerRejection.kind = "ProtobufDecodeError"
        /\ op = "ProtoJson::from_request" => result.rejection.kind = "ProtobufRejection"
        /\ pc = "done" =>
              response = Some([status |-> 400, contentType |-> None,
                               body |-> Text("Protobuf decoding error")])

C6_Witness ==
    /\ op = "ProtoJson::from_request"
    /\ HasProtobufToken
    /\ body = << 97, 97, 97 >>
    /\ pc = "done"
    /\ InnerRejection = ProtobufDecodeError("buffer underflow")
    /\ response[1].status = 400

\* C7: with an accepted protobuf token and a body of zero bytes, extraction
\* succeeds with the default message under both extractors (unless the
\* stream itself fails).
C7_EmptyBody ==
    (/\ op \in Extractors /\ HasProtobufToken
     /\ body = << >>
     /\ Returned /\ ~StreamFailed) =>
        result = Ok([test |-> << >>])

C7_Witness ==
    /\ op = "ProtoJson::from_request"
    /\ contentType = << "application/x-protobuf" >>
    /\ body = << >>
    /\ pc = "returned"
    /\ result.tag = "Ok"
    /\ taken = 1

\* C8: the response of Protobuf::into_response has status 200 and the
\* content type application/protobuf, for every message.
C8_CanonicalContentType ==
    (op = "Protobuf::into_response" /\ pc = "done") =>
        /\ response # None
        /\ response[1].status = 200
        /\ response[1].contentType = << "application/protobuf" >>

C8_Witness ==
    /\ op = "Protobuf::into_response"
    /\ pc = "done"
    /\ msg = Message(<< 97, 98 >>)
    /\ response[1].body = Bytes(<< 10, 2, 97, 98 >>)

\* C9: try_infer_response depends on the accept header only: exactly
\* application/json gives the JSON response (200, application/json), exactly
\* one of the three protobuf tokens gives the Protobuf responder's response
\* (200, application/protobuf), anything else or no header gives None.
C9_TryInfer ==
    (op = "ProtoJson::try_infer_response" /\ pc = "done") =>
        IF accept = << "application/json" >>
        THEN /\ response # None
             /\ response[1].status = 200
             /\ response[1].contentType = << "application/json" >>
             /\ response[1].body.kind = "json"
        ELSE IF accept # << >> /\ accept[1] \in ProtobufTokens
        THEN /\ response = Some(ProtobufIntoResponse(msg))
             /\ response[1].status = 200
             /\ response[1].contentType = << "application/protobuf" >>
        ELSE response = None

C9_Witness ==
    /\ op = "ProtoJson::try_infer_response"
    /\ pc = "done"
    /\ accept = << "application/x-protobuf" >>
    /\ response # None
    /\ response[1].contentType = << "application/protobuf" >>

\* C10: infer_response always yields a response: the one try_infer_response
\* gives when it gives one, and otherwise (accept absent or not recognised)
\* 400 with the missing-accept text.
C10_Infer ==
    (op = "ProtoJson::infer_response" /\ pc = "done") =>
        /\ response # None
        /\ IF accept # << >> /\ accept[1] \in ProtobufTokens \cup {"application/json"}
           THEN response = TryInferResponse(msg, accept)
           ELSE /\ TryInferResponse(msg, accept) = None
                /\ response = Some([status |-> 400, contentType |-> None,
                                    body |-> Text("Missing 'accept' header with value 'application/json' or 'application/protobuf'")])

C10_Witness ==
    /\ op = "ProtoJson::infer_response"
    /\ pc = "done"
    /\ accept = << "text/plain" >>
    /\ response # None
    /\ response[1].status = 400

\* C11: a rejection of the extractor ProtoJson delegated to is rendered
\* through ProtoJsonRejection exactly as it would be rendered on its own:
\* same status, same body, for the JSON extractor's and the Protobuf
\* extractor's rejections alike (a JSON data error stays 422, a buffering
\* failure stays 500).
C11_RejectionPassThrough ==
    (/\ op = "ProtoJson::from_request" /\ pc = "done"
     /\ result.rejection.kind \in {"JsonRejection", "ProtobufRejection"}) =>
        LET inner == result.rejection.inner
            alone == IF result.rejection.kind = "JsonRejection"
                     THEN JsonRejectionIntoResponse(inner)
                     ELSE ProtobufRejectionIntoResponse(inner)
        IN  /\ response # None
            /\ response[1].status = alone.status
            /\ response[1].body = alone.body
            /\ inner.kind = "JsonDataError" => response[1].status = 422
            /\ inner.kind = "JsonSyntaxError" => response[1].status = 400
            /\ inner.kind \in {"BytesRejection", "FailedToBufferBody"} => response[1].status = 500

C11_Witness ==
    /\ op = "ProtoJson::from_request"
    /\ pc = "done"
    /\ calls = << "ProtoJson", "Json" >>
    /\ result.tag = "Err"
    /\ result.rejection = JsonRejection(JsonDataError)
    /\ response # None
    /\ response[1].status = 422
    /\ response[1].body = Text("Failed to deserialize the JSON body into the target type")

\* C12: once the body stream has yielded an error to the Protobuf extractor,
\* the extractor has returned FailedToBufferBody (rendered as 500 with the
\* text "Error reading request body"), whatever was buffered before; the
\* decoder has not been and is never invoked, no message is returned, and
\* from then on no item is read from the stream and the buffer is not touched.
C12_StreamErrorAborts ==
    /\ [](( streamErr /\ Contains(calls, "Protobuf") ) =>
            /\ pc \in {"returned", "done"}
            /\ result.tag = "Err"
            /\ InnerRejection = [kind |-> "FailedToBufferBody", detail |-> ""]
            /\ decodes = 0
            /\ pc = "done" =>
                  response = Some([status |-> 500, contentType |-> None,
                                   body |-> Text("Error reading request body")]))
    /\ [][ streamErr => UNCHANGED << chunksRead, rest, buf, decodes, result >> ]_vars

C12_Witness ==
    /\ op = "Protobuf::from_request"
    /\ streamErr
    /\ body = << 10, 1, 97 >>
    /\ buf = << 10, 1 >>
    /\ chunksRead = 3
    /\ pc = "done"
    /\ response # None
    /\ response[1].status = 500

\* C13: the dispatch of ProtoJson::from_request and the header check of the
\* Protobuf extractor it delegates to accept the same content types, so the
\* negotiating extractor never returns ProtobufRejection(MissingProtobuf-
\* ContentType): under delegation the inner check always passes, and every
\* 415 it produces for a content type other than JSON carries the combined
\* text, never the protobuf-only one.
C13_ChecksAgree ==
    op = "ProtoJson::from_request" =>
        /\ ~( /\ result.tag = "Err"
              /\ result.rejection.kind = "ProtobufRejection"
              /\ result.rejection.inner.kind = "MissingProtobufContentType" )
        /\ (Contains(calls, "Protobuf") /\ pc # "pb_header") => taken = 1
        /\ (pc = "done" /\ ~HasJsonToken /\ response[1].status = 415) =>
              /\ result.rejection.kind = "MissingContentType"
              /\ response[1].body =
                    Text("Missing 'content-type' header that has the value 'application/json' or 'application/protobuf'")
              /\ response[1].body # Text("Missing 'content-type: application/protobuf' header")

C13_Witness ==
    /\ op = "ProtoJson::from_request"
    /\ contentType = << "application/vnd.google.protobuf" >>
    /\ calls = << "ProtoJson", "Protobuf" >>
    /\ pc = "pb_next"
    /\ taken = 1
    /\ result.tag = "Pending"

====
